---- MODULE Spec2Model ----
(***************************************************************************)
(* scripts/resize_image.py: open assets/images/app_image.png, compute a    *)
(* height that keeps the aspect ratio at width 1920, resize with Lanczos,  *)
(* save as assets/images/app_image_resized.png and print both file sizes.  *)
(*                                                                         *)
(* The script is one straight line of statements.  The state is the two    *)
(* files, the script's variables, the console, and the statement the       *)
(* interpreter is at (pc).  An uncaught exception ends the process         *)
(* (pc = "failed").  Pillow and the filesystem are outside the repository: *)
(* a call into them either has its documented effect or raises.            *)
(***************************************************************************)
EXTENDS Integers, Sequences, FiniteSets

\* ---------------------------------------------------------------- bounds

\* Small pixel dimensions 0..MaxDim are enumerated beside the scenario sizes.
MaxDim == 4

\* Consecutive invocations of the script.
MaxRuns == 2

\* ------------------------------------------------------------- constants

\* line 13: target_width = 1920
TARGET_WIDTH == 1920

\* line 8 and line 25
SourcePath == "assets/images/app_image.png"

\* line 26
ResizedPath == "assets/images/app_image_resized.png"

\* Variant: the save targets the source path.
SavePathBackToSource == SourcePath

\* line 22: the path handed to resized_img.save
SavePath == ResizedPath

Paths == {SourcePath, ResizedPath}

\* ------------------------------------------------------------ file model

\* A Python name that is not bound yet.
Unset == [kind |-> "unset"]

\* No file at the path.
Missing == [kind |-> "missing"]

\* A file that is not an image Pillow identifies.
Junk == [kind |-> "junk"]

\* What an aborted write leaves behind: a truncated file.
Partial == [kind |-> "partial"]

\* A PNG file: its pixel dimensions, its pixel data (abstract), and which
\* encoder wrote it ("orig": whatever made the asset, "pil": Pillow with
\* optimize=True).
Png(size, pix, enc) == [kind |-> "png", size |-> size, pix |-> pix, enc |-> enc]

\* Image.open: succeeds on an existing, identifiable image.
CanOpen(file) == file.kind = "png"

\* Image.open(...): the decoded raster; img.size is (width, height).
Decode(file) == [size |-> file.size, pix |-> file.pix]

\* img.resize(size, LANCZOS): a raster of exactly `size`; its pixels are a
\* function of the source pixels, the source size and the target size.
\* Pillow returns a copy when the size does not change.
Lanczos(im, size) ==
  IF im.size = size
    THEN [size |-> size, pix |-> im.pix]
    ELSE [size |-> size, pix |-> im.pix \o <<im.size[1], im.size[2]>>]

\* save(path, 'PNG', optimize=True): a deterministic encoding of the raster.
PngEncode(im) == Png(im.size, im.pix, "pil")

\* os.path.getsize(path): the byte length of what is at the path.  The length
\* is a function of the content; it is positive for every file Image.open
\* accepts (a PNG starts with an 8-byte signature).
getsize(file) == [bytes_of |-> file]

\* ------------------------------------------------------------ arithmetic

Abs(x) == IF x < 0 THEN -x ELSE x

\* int(a / b): true division, then truncation toward zero.  The quotient of
\* two integers below 2^53 is rounded to the nearest double, which is never
\* across an integer boundary, so int() of it is the truncated exact quotient.
TruncDiv(a, b) ==
  IF (a >= 0) = (b > 0) THEN Abs(a) \div Abs(b) ELSE -(Abs(a) \div Abs(b))

\* Variant: round to nearest instead of truncating.
TargetHeightRounded(tw, oh, ow) == (2 * tw * oh + ow) \div (2 * ow)

\* Variant: one pixel more than the truncated quotient.
TargetHeightPlusOne(tw, oh, ow) == TruncDiv(tw * oh, ow) + 1

\* line 14: int((target_width * original_height) / original_width)
TargetHeight(tw, oh, ow) == TruncDiv(tw * oh, ow)

\* ----------------------------------------------------------------- state

VARIABLES
  fs,               \* path -> file content
  pc,               \* the statement to execute next, "done" or "failed"
  img,              \* line 8
  original_width,   \* line 12
  original_height,  \* line 12
  target_width,     \* line 13
  target_height,    \* line 14
  resized_img,      \* line 19
  original_size,    \* line 25
  new_size,         \* line 26
  console,          \* stdout of the current run
  run,              \* number of the current invocation
  steps,            \* history: statements attempted in the current run
  failedAt,         \* history: the statement that raised, or "none"
  fs0,              \* history: fs when the current run started
  fsFirst,          \* history: fs before the first run
  outputs           \* history: the output file after each completed run

locals == <<img, original_width, original_height, target_width, target_height,
            resized_img, original_size, new_size>>

vars == <<fs, pc, locals, console, run, steps, failedAt, fs0, fsFirst, outputs>>

\* -------------------------------------------------------------- inputs

SmallDims == 0 .. MaxDim

Widths == SmallDims \cup {1920, 4000}

Heights == SmallDims \cup {1080, 3000}

SourceFiles ==
  {Missing, Junk} \cup {Png(<<w, h>>, <<1>>, "orig") : w \in Widths, h \in Heights}

\* What the output path may hold before the first run: nothing, an output of
\* an earlier version of the asset, or a truncated file.
PriorOutput == Png(<<1920, 1080>>, <<0, 1280, 720>>, "pil")

OutputFiles == {Missing, PriorOutput, Partial}

\* ------------------------------------------------------------- helpers

Range(s) == {s[i] : i \in 1 .. Len(s)}

\* The statement `step` has executed in the current run without raising.
Completed(step) == step \in Range(steps) /\ failedAt # step

\* The statement `step` ends normally; control moves to `next`.
Advance(step, next) ==
  /\ pc' = next
  /\ steps' = Append(steps, step)
  /\ UNCHANGED <<failedAt, run, fs0, fsFirst>>

\* The statement `step` raises; nothing catches it.
Raise(step) ==
  /\ pc' = "failed"
  /\ steps' = Append(steps, step)
  /\ failedAt' = step
  /\ UNCHANGED <<run, fs0, fsFirst, outputs>>

\* print(...): one more line on stdout.
WriteLine(label, args) == console' = Append(console, [label |-> label, args |-> args])

\* ------------------------------------------------------------------ Init

InitLocals ==
  /\ img = Unset
  /\ original_width = Unset
  /\ original_height = Unset
  /\ target_width = Unset
  /\ target_height = Unset
  /\ resized_img = Unset
  /\ original_size = Unset
  /\ new_size = Unset

Init ==
  /\ fs \in {[p \in Paths |-> IF p = SourcePath THEN s ELSE o] :
               s \in SourceFiles, o \in OutputFiles}
  /\ pc = "open"
  /\ InitLocals
  /\ console = <<>>
  /\ run = 1
  /\ steps = <<>>
  /\ failedAt = "none"
  /\ fs0 = fs
  /\ fsFirst = fs
  /\ outputs = <<>>

\* --------------------------------------------------------------- actions

\* Variant: the output file is created before the source is opened.
OpenAfterCreatingOutput ==
  /\ pc = "open"
  /\ fs' = [fs EXCEPT ![ResizedPath] = Partial]
  /\ \/ /\ CanOpen(fs[SourcePath])
        /\ img' = Decode(fs[SourcePath])
        /\ Advance("open", "print_original_size")
        /\ UNCHANGED <<console, outputs, original_width, original_height,
                       target_width, target_height, resized_img,
                       original_size, new_size>>
     \/ /\ ~CanOpen(fs[SourcePath])
        /\ Raise("open")
        /\ UNCHANGED <<console, locals>>

\* line 8: img = Image.open('assets/images/app_image.png')
Open ==
  /\ pc = "open"
  /\ \/ /\ CanOpen(fs[SourcePath])
        /\ img' = Decode(fs[SourcePath])
        /\ Advance("open", "print_original_size")
        /\ UNCHANGED <<fs, console, outputs, original_width, original_height,
                       target_width, target_height, resized_img,
                       original_size, new_size>>
     \/ /\ ~CanOpen(fs[SourcePath])
        /\ Raise("open")
        /\ UNCHANGED <<fs, console, locals>>

\* line 9: print(f'Original size: {img.size}')
PrintOriginalSize ==
  /\ pc = "print_original_size"
  /\ WriteLine("Original size", img.size)
  /\ Advance("print_original_size", "unpack")
  /\ UNCHANGED <<fs, locals, outputs>>

\* lines 12-13: original_width, original_height = img.size; target_width = 1920
UnpackSize ==
  /\ pc = "unpack"
  /\ original_width' = img.size[1]
  /\ original_height' = img.size[2]
  /\ target_width' = TARGET_WIDTH
  /\ Advance("unpack", "compute")
  /\ UNCHANGED <<fs, console, outputs, img, target_height, resized_img,
                 original_size, new_size>>

\* Variant: a zero width is tolerated and gives height 0.
ComputeHeightGuarded ==
  /\ pc = "compute"
  /\ target_height' = IF original_width = 0
                        THEN 0
                        ELSE TargetHeight(target_width, original_height, original_width)
  /\ Advance("compute", "print_new_size")
  /\ UNCHANGED <<fs, console, outputs, img, original_width, original_height,
                 target_width, resized_img, original_size, new_size>>

\* line 14: target_height = int((target_width * original_height) / original_width)
ComputeHeight ==
  /\ pc = "compute"
  /\ \/ /\ original_width # 0
        /\ target_height' = TargetHeight(target_width, original_height, original_width)
        /\ Advance("compute", "print_new_size")
        /\ UNCHANGED <<fs, console, outputs, img, original_width, original_height,
                       target_width, resized_img, original_size, new_size>>
     \/ /\ original_width = 0       \* ZeroDivisionError
        /\ Raise("compute")
        /\ UNCHANGED <<fs, console, locals>>

\* line 16: print(f'New size: {target_width}x{target_height}')
PrintNewSize ==
  /\ pc = "print_new_size"
  /\ WriteLine("New size", <<target_width, target_height>>)
  /\ Advance("print_new_size", "resize")
  /\ UNCHANGED <<fs, locals, outputs>>

\* Variant: an image not wider than the target is left at its size.
LanczosKeepSmaller(im, size) ==
  IF im.size[1] <= size[1] THEN [size |-> im.size, pix |-> im.pix] ELSE Lanczos(im, size)

\* line 19: the raster img.resize((target_width, target_height), LANCZOS) returns
Resample(im, size) == Lanczos(im, size)

\* Variant: a failed resize is swallowed and the original image is saved.
ResizeSwallowingError ==
  /\ pc = "resize"
  /\ \/ /\ resized_img' = Resample(img, <<target_width, target_height>>)
        /\ UNCHANGED failedAt
     \/ /\ resized_img' = img
        /\ failedAt' = "resize"
  /\ pc' = "save"
  /\ steps' = Append(steps, "resize")
  /\ UNCHANGED <<fs, console, outputs, run, fs0, fsFirst, img, original_width,
                 original_height, target_width, target_height, original_size,
                 new_size>>

\* line 19: resized_img = img.resize((target_width, target_height), LANCZOS)
\* Pillow decodes the pixel data here; it raises on a truncated file, on a
\* size it rejects, or when memory runs out.
Resize ==
  /\ pc = "resize"
  /\ \/ /\ resized_img' = Resample(img, <<target_width, target_height>>)
        /\ Advance("resize", "save")
        /\ UNCHANGED <<fs, console, outputs, img, original_width, original_height,
                       target_width, target_height, original_size, new_size>>
     \/ /\ Raise("resize")
        /\ UNCHANGED <<fs, console, locals>>

\* Variant: an existing file is kept.
WriteFileIfAbsent(f, path, content) ==
  IF f[path].kind = "missing" THEN [f EXCEPT ![path] = content] ELSE f

\* line 22: save opens the path for writing and replaces whatever it held
WriteFile(f, path, content) == [f EXCEPT ![path] = content]

\* Variant: the save is skipped when the size did not change.
SaveUnlessSameSize ==
  /\ pc = "save"
  /\ fs' = IF resized_img.size = img.size
             THEN fs
             ELSE WriteFile(fs, SavePath, PngEncode(resized_img))
  /\ Advance("save", "getsize_original")
  /\ UNCHANGED <<console, locals, outputs>>

\* line 22: resized_img.save('assets/images/app_image_resized.png', 'PNG', optimize=True)
\* A failed save either never opened the file (it is as before) or leaves a
\* truncated file.
Save ==
  /\ pc = "save"
  /\ \/ /\ fs' = WriteFile(fs, SavePath, PngEncode(resized_img))
        /\ Advance("save", "getsize_original")
        /\ UNCHANGED <<console, locals, outputs>>
     \/ /\ fs' \in {fs, WriteFile(fs, SavePath, Partial)}
        /\ Raise("save")
        /\ UNCHANGED <<console, locals>>

\* line 25: original_size = os.path.getsize('assets/images/app_image.png')
GetOriginalSize ==
  /\ pc = "getsize_original"
  /\ \/ /\ original_size' = getsize(fs[SourcePath])
        /\ Advance("getsize_original", "getsize_new")
        /\ UNCHANGED <<fs, console, outputs, img, original_width, original_height,
                       target_width, target_height, resized_img, new_size>>
     \/ /\ Raise("getsize_original")       \* OSError
        /\ UNCHANGED <<fs, console, locals>>

\* Variant: the new size is that of the file the run found.
GetNewSizeBeforeSave ==
  /\ pc = "getsize_new"
  /\ new_size' = getsize(fs0[ResizedPath])
  /\ Advance("getsize_new", "print_original_file_size")
  /\ UNCHANGED <<fs, console, outputs, img, original_width, original_height,
                 target_width, target_height, resized_img, original_size>>

\* line 26: new_size = os.path.getsize('assets/images/app_image_resized.png')
GetNewSize ==
  /\ pc = "getsize_new"
  /\ \/ /\ new_size' = getsize(fs[ResizedPath])
        /\ Advance("getsize_new", "print_original_file_size")
        /\ UNCHANGED <<fs, console, outputs, img, original_width, original_height,
                       target_width, target_height, resized_img, original_size>>
     \/ /\ Raise("getsize_new")            \* OSError
        /\ UNCHANGED <<fs, console, locals>>

\* line 28: print(f'Original file size: {original_size / (1024*1024):.1f} MB')
PrintOriginalFileSize ==
  /\ pc = "print_original_file_size"
  /\ WriteLine("Original file size", <<original_size>>)
  /\ Advance("print_original_file_size", "print_new_file_size")
  /\ UNCHANGED <<fs, locals, outputs>>

\* line 29: print(f'New file size: {new_size / (1024*1024):.1f} MB')
PrintNewFileSize ==
  /\ pc = "print_new_file_size"
  /\ WriteLine("New file size", <<new_size>>)
  /\ Advance("print_new_file_size", "print_size_reduction")
  /\ UNCHANGED <<fs, locals, outputs>>

\* line 30: print(f'Size reduction: {((original_size - new_size) / original_size) * 100:.1f}%')
\* original_size is the length of a file Image.open accepted, so it is not 0.
\* The script ends here; the output file is what this run leaves behind.
PrintSizeReduction ==
  /\ pc = "print_size_reduction"
  /\ WriteLine("Size reduction", <<original_size, new_size>>)
  /\ pc' = "done"
  /\ steps' = Append(steps, "print_size_reduction")
  /\ outputs' = Append(outputs, fs[ResizedPath])
  /\ UNCHANGED <<fs, locals, failedAt, run, fs0, fsFirst>>

\* The script is invoked again after the previous process has ended.
StartRun ==
  /\ pc \in {"done", "failed"}
  /\ run < MaxRuns
  /\ run' = run + 1
  /\ pc' = "open"
  /\ img' = Unset
  /\ original_width' = Unset
  /\ original_height' = Unset
  /\ target_width' = Unset
  /\ target_height' = Unset
  /\ resized_img' = Unset
  /\ original_size' = Unset
  /\ new_size' = Unset
  /\ console' = <<>>
  /\ steps' = <<>>
  /\ failedAt' = "none"
  /\ fs0' = fs
  /\ UNCHANGED <<fs, fsFirst, outputs>>

\* One statement of the running script.
Step ==
  \/ Open
  \/ PrintOriginalSize
  \/ UnpackSize
  \/ ComputeHeight
  \/ PrintNewSize
  \/ Resize
  \/ Save
  \/ GetOriginalSize
  \/ GetNewSize
  \/ PrintOriginalFileSize
  \/ PrintNewFileSize
  \/ PrintSizeReduction

Next == Step \/ StartRun

Spec == Init /\ [][Next]_vars

\* The interpreter executes the next statement of a running script.
FairSpec == Spec /\ WF_vars(Step)

\* ------------------------------------------- the height computation alone

\* Target widths for the computation taken on its own: the script's 1920 and
\* others, so that the arithmetic is exercised for more than one width.
TargetWidths == (1 .. MaxDim) \cup {1000, TARGET_WIDTH}

\* The script at line 14, for every decoded size and every target width.
InitHeight ==
  /\ \E w \in Widths, h \in Heights :
       /\ fs = [p \in Paths |->
                  IF p = SourcePath THEN Png(<<w, h>>, <<1>>, "orig") ELSE Missing]
       /\ img = Decode(fs[SourcePath])
       /\ original_width = w
       /\ original_height = h
       /\ console = <<[label |-> "Original size", args |-> <<w, h>>]>>
  /\ target_width \in TargetWidths
  /\ target_height = Unset
  /\ resized_img = Unset
  /\ original_size = Unset
  /\ new_size = Unset
  /\ pc = "compute"
  /\ run = 1
  /\ steps = <<"open", "print_original_size", "unpack">>
  /\ failedAt = "none"
  /\ fs0 = fs
  /\ fsFirst = fs
  /\ outputs = <<>>

NextHeight == ComputeHeight

HeightSpec == InitHeight /\ [][NextHeight]_vars

\* ----------------------------------------------------------- properties

\* The statements of the script in program order (lines 8 to 30).
ScriptOrder ==
  <<"open", "print_original_size", "unpack", "compute", "print_new_size",
    "resize", "save", "getsize_original", "getsize_new",
    "print_original_file_size", "print_new_file_size", "print_size_reduction">>

PrintSteps ==
  {"print_original_size", "print_new_size", "print_original_file_size",
   "print_new_file_size", "print_size_reduction"}

IsPrefix(s, t) == Len(s) <= Len(t) /\ \A i \in 1 .. Len(s) : s[i] = t[i]

Labels(out) == [i \in 1 .. Len(out) |-> out[i].label]

Remainder == (target_width * original_height) % original_width

\* C1: once line 14 has run with original_width > 0, original_height >= 0 and
\* target_width > 0, target_height is the floor of
\* target_width * original_height / original_width: it is never rounded up,
\* and it is not negative.
C1_HeightIsFloor ==
  Completed("compute") =>
    /\ target_height = (target_width * original_height) \div original_width
    /\ target_height * original_width <= target_width * original_height
    /\ target_height >= 0

\* The 1920-wide computation where rounding to nearest would give one more.
C1_Witness ==
  /\ Completed("compute")
  /\ target_width = TARGET_WIDTH
  /\ Remainder # 0
  /\ 2 * Remainder >= original_width
  /\ target_height > 0

\* C2: the computed height keeps the aspect ratio to within one output pixel:
\* |target_height/target_width - original_height/original_width| < 1/target_width,
\* which multiplied by target_width * original_width is
\* |target_height*original_width - original_height*target_width| < original_width,
\* the error being on the low side only.
C2_AspectRatioBound ==
  Completed("compute") =>
    LET err == target_width * original_height - target_height * original_width
    IN  /\ Abs(err) < original_width
        /\ 0 <= err

\* A computation whose quotient is not whole, so that the error is not zero.
C2_Witness ==
  /\ Completed("compute")
  /\ target_width = TARGET_WIDTH
  /\ original_width = 4000
  /\ Remainder > 0
  /\ target_height > 0

\* C3: after a run that completed, opening the output file yields an image of
\* exactly (1920, target_height), whatever the source size was and whatever
\* the output path held before the run.
C3_OutputDimensions ==
  pc = "done" =>
    /\ CanOpen(fs[ResizedPath])
    /\ Decode(fs[ResizedPath]).size = <<TARGET_WIDTH, target_height>>

\* A completed run that replaced an earlier 1920x1080 output by a 1920x1440 one.
C3_Witness ==
  /\ pc = "done"
  /\ fs0[ResizedPath] = PriorOutput
  /\ fs[SourcePath].size = <<4000, 3000>>
  /\ fs[ResizedPath].size = <<1920, 1440>>

\* C4: with the source file missing the run fails at the open statement, and
\* nothing else has happened: no line printed, the output path as it was
\* when the run started.
C4_MissingSourceFailsFirst ==
  (fs0[SourcePath] = Missing /\ pc # "open") =>
    /\ pc = "failed"
    /\ failedAt = "open"
    /\ steps = <<"open">>
    /\ console = <<>>
    /\ fs = fs0

\* A failed run with a missing source that found an earlier output in place.
C4_Witness ==
  /\ fs0[SourcePath] = Missing
  /\ pc = "failed"
  /\ fs[ResizedPath] = PriorOutput

\* C5: the source file always holds what it held before the first run, in
\* every state of every run; no path other than the two of the script exists.
C5_SourceNeverMutated ==
  /\ fs[SourcePath] = fsFirst[SourcePath]
  /\ DOMAIN fs = Paths

\* The second of two completed runs, the output file having been written.
C5_Witness ==
  /\ run = 2
  /\ pc = "done"
  /\ Len(outputs) = 2
  /\ fs[ResizedPath] # fsFirst[ResizedPath]

\* C6: the output of a completed run is the encoding of the resized source
\* and nothing else (what the path held before plays no part), and it equals
\* the output of every earlier completed run.
C6_SameOutputEveryRun ==
  pc = "done" =>
    /\ fs[ResizedPath] =
         PngEncode(Lanczos(Decode(fs[SourcePath]),
                           <<TARGET_WIDTH,
                             TargetHeight(TARGET_WIDTH, fs[SourcePath].size[2],
                                          fs[SourcePath].size[1])>>))
    /\ \A i \in 1 .. Len(outputs) : outputs[i] = fs[ResizedPath]

\* Two completed runs, the first of which found an earlier output in place.
C6_Witness ==
  /\ pc = "done"
  /\ Len(outputs) = 2
  /\ fsFirst[ResizedPath] = PriorOutput

\* C7: the statements run in program order, each at most once; a completed
\* run has executed all of them and printed exactly the five lines in order;
\* the new file size is the size of the file the save of this run wrote.
C7_StrictOrder ==
  /\ IsPrefix(steps, ScriptOrder)
  /\ Completed("getsize_new") =>
       /\ Completed("save")
       /\ new_size = getsize(PngEncode(resized_img))
  /\ pc = "done" =>
       /\ steps = ScriptOrder
       /\ Labels(console) = <<"Original size", "New size", "Original file size",
                              "New file size", "Size reduction">>

\* A completed run that overwrote an earlier output.
C7_Witness ==
  /\ pc = "done"
  /\ Len(console) = 5
  /\ fs0[ResizedPath] = PriorOutput
  /\ fs[ResizedPath] # PriorOutput

\* A run that has not ended.
Running == pc \notin {"done", "failed"}

\* C8: a statement that raises ends the run: it is the last statement of the
\* run, the console holds only the lines printed before it, a failure before
\* the save leaves the files as the run found them; a failed run changes
\* nothing any more; and every run ends, completed or failed.
C8_FailureIsFatal ==
  /\ [](failedAt # "none" =>
          /\ pc = "failed"
          /\ steps[Len(steps)] = failedAt
          /\ IsPrefix(steps, ScriptOrder)
          /\ Len(console) = Cardinality({i \in 1 .. Len(steps) - 1 : steps[i] \in PrintSteps})
          /\ failedAt \in {"open", "compute", "resize"} => fs = fs0)
  /\ [][(pc = "failed" /\ run' = run) => UNCHANGED <<fs, console, steps, pc>>]_vars
  /\ (Running ~> ~Running)

\* A run that failed at the resize, after two printed lines, files untouched.
C8_Witness ==
  /\ pc = "failed"
  /\ failedAt = "resize"
  /\ Len(console) = 2
  /\ fs = fs0
  /\ fs[ResizedPath] = PriorOutput

\* C9: when the source is already 1920 wide the computed height is the
\* source height, and the run still resizes and saves: a completed run has
\* executed both and the output file is the fresh encoding.
C9_SameWidthStillWrites ==
  (Completed("compute") /\ original_width = target_width) =>
    /\ target_height = original_height
    /\ pc = "done" =>
         /\ Completed("resize")
         /\ Completed("save")
         /\ resized_img.size = img.size
         /\ fs[ResizedPath] = PngEncode(resized_img)
         /\ fs[ResizedPath] # fs[SourcePath]

\* A completed run on a 1920x1080 source with no output file before it.
C9_Witness ==
  /\ pc = "done"
  /\ original_width = TARGET_WIDTH
  /\ original_height = 1080
  /\ fs0[ResizedPath] = Missing
  /\ fs[ResizedPath].size = <<1920, 1080>>

\* C10: an image of width 0 makes the run fail at line 14: 'Original size' is
\* the only line printed, 'New size' never appears, and the files stay as the
\* run found them.
C10_ZeroWidthFailsAtCompute ==
  (Completed("open") /\ img.size[1] = 0) =>
    /\ pc \in {"print_original_size", "unpack", "compute", "failed"}
    /\ fs = fs0
    /\ \A i \in 1 .. Len(console) : console[i].label # "New size"
    /\ pc = "failed" =>
         /\ failedAt = "compute"
         /\ Labels(console) = <<"Original size">>

\* A run on a 0-wide image that has failed, an earlier output still in place.
C10_Witness ==
  /\ pc = "failed"
  /\ failedAt = "compute"
  /\ img.size[1] = 0
  /\ fs[ResizedPath] = PriorOutput

====
